---- MODULE Spec2Model ----
(***************************************************************************)
(* Model of scripts/update-feeds.js: the merge of a persisted snapshot     *)
(* with a fresh fetch (mergeFeedItems), the per-source update cycle        *)
(* (updateFeed) with its token budget, retry wrapper and request queue,    *)
(* and the driver over all configured sources (updateAllFeeds, main).      *)
(*                                                                         *)
(* An entry is a record [link, content, summary].  `content` stands for    *)
(* title + content and the other display fields, which the code copies as  *)
(* one block (`...item`); `summary` is NoSummary when the field is absent  *)
(* or empty (both are falsy for the `||` and `!` of the code).             *)
(***************************************************************************)
EXTENDS Integers, Sequences, FiniteSets, TLC

(* ------------------------------ bounds --------------------------------- *)
\* longest feed a fetch returns
MaxFresh == 2
\* largest config.maxItemsPerFeed of the checked configurations
MaxItemsPerFeed == 2
\* longest fresh list given to mergeFeedItems when it is checked on its own
MaxMergeFresh == 3
\* number of window-length steps the clock can advance while the script runs
MaxTicks == 1

(* -------------------------- program constants -------------------------- *)
\* apiQueue = new PQueue({ concurrency: 3, ... })
Concurrency == 3
\* RETRY_CONFIG.retries: retries after the first attempt
Retries == 3
\* ceiling of the `currentMinuteTokens + estimatedTokens > 900000` test
TokenCeiling == 900000
\* window of the `now - lastResetTime > 60 * 1000` test, in ms
WindowMs == 60000

NoLink == ""
NoSummary == "<none>"
\* data?.candidates?.[0]?...?.trim() || "无有效摘要生成"
NoValidSummary == "no-valid-summary"
\* summary pushed by the catch of updateFeed: "摘要生成失败（请稍后重试）"
FallbackSummary == "summary-failed"

Links == {"a", "b"}
\* texts the generation service can return; "" is an empty candidate text
GeneratedTexts == {"s1", ""}

\* config.sources, in configuration order
Sources == <<"u1", "u2">>
SourceSet == {Sources[k] : k \in 1..Len(Sources)}

Min(x, y) == IF x <= y THEN x ELSE y

SeqsUpTo(S, n) == UNION {[1..k -> S] : k \in 0..n}

Item(l, c, s) == [link |-> l, content |-> c, summary |-> s]

(* --------------------------- mergeFeedItems ---------------------------- *)
\* JS truthiness of item.link / item.summary
HasLink(item) == item.link # NoLink
HasSummary(item) == item.summary # NoSummary

\* itemsMap.set(key, value) on a Map modelled as a function over its keys
MapSet(m, k, v) == [x \in (DOMAIN m) \cup {k} |-> IF x = k THEN v ELSE m[x]]

EmptyMap == [x \in {} |-> Item(NoLink, "c1", NoSummary)]

\* for (const item of oldItems) if (item.link) itemsMap.set(item.link, item)
RECURSIVE OldItemsMap(_, _)
OldItemsMap(oldItems, n) ==
  IF n = 0 THEN EmptyMap
  ELSE LET m == OldItemsMap(oldItems, n - 1)
           item == oldItems[n]
       IN IF HasLink(item) THEN MapSet(m, item.link, item) ELSE m

\* mutant: summary: item.summary || existingItem?.summary
MergedSummaryFreshFirst(hasExisting, existingSummary, itemSummary) ==
  IF itemSummary # NoSummary THEN itemSummary
  ELSE IF hasExisting THEN existingSummary ELSE NoSummary

\* summary: existingItem?.summary || item.summary
MergedSummary(hasExisting, existingSummary, itemSummary) ==
  IF hasExisting /\ existingSummary # NoSummary THEN existingSummary
  ELSE itemSummary

\* mutant: every fresh entry with a link is taken as new
MergeStepAlwaysNew(st, item) ==
  IF ~HasLink(item) THEN st
  ELSE [map  |-> MapSet(st.map, item.link, item),
        news |-> Append(st.news, item)]

\* mutant: no fresh entry is taken as new
MergeStepNeverNew(st, item) ==
  IF ~HasLink(item) THEN st
  ELSE LET hasExisting == item.link \in DOMAIN st.map
           serializedItem ==
             Item(item.link, item.content,
                  MergedSummary(hasExisting,
                                IF hasExisting THEN st.map[item.link].summary
                                ELSE NoSummary,
                                item.summary))
       IN [map  |-> MapSet(st.map, item.link, serializedItem),
           news |-> st.news]

\* one iteration of `for (const item of newItems)`; st = [map, news]
MergeStep(st, item) ==
  IF ~HasLink(item) THEN st
  ELSE LET hasExisting == item.link \in DOMAIN st.map
           serializedItem ==
             Item(item.link, item.content,
                  MergedSummary(hasExisting,
                                IF hasExisting THEN st.map[item.link].summary
                                ELSE NoSummary,
                                item.summary))
       IN [map  |-> MapSet(st.map, item.link, serializedItem),
           news |-> IF hasExisting THEN st.news ELSE Append(st.news, item)]

RECURSIVE MergeLoop(_, _, _)
MergeLoop(oldItems, newItems, n) ==
  IF n = 0 THEN [map |-> OldItemsMap(oldItems, Len(oldItems)), news |-> <<>>]
  ELSE MergeStep(MergeLoop(oldItems, newItems, n - 1), newItems[n])

\* mutant: the slice is forgotten
SliceNone(s, maxN) == s

\* .slice(0, maxItems) for maxItems >= 0
Slice(s, maxN) == SubSeq(s, 1, Min(Len(s), maxN))

\* newItems.filter(item => item.link && itemsMap.has(item.link))
\*         .map(item => itemsMap.get(item.link)).slice(0, maxItems)
MergedOf(map, newItems, maxN) ==
  LET kept == SelectSeq(newItems, LAMBDA it : HasLink(it) /\ it.link \in DOMAIN map)
  IN Slice([k \in 1..Len(kept) |-> map[kept[k].link]], maxN)

mergeFeedItems(oldItems, newItems, maxN) ==
  LET st == MergeLoop(oldItems, newItems, Len(newItems))
  IN [mergedItems |-> MergedOf(st.map, newItems, maxN),
      newItemsForSummary |-> st.news]

(* ------------------------------- state --------------------------------- *)
VARIABLES
  store,               \* persisted items per source (loadFeedData / saveFeedData)
  srcIdx,              \* position of updateAllFeeds in config.sources
  results,             \* results object of updateAllFeeds
  pc,                  \* where the single control flow is suspended
  lastError,           \* what the last finished updateFeed threw, "none" if nothing
  existingItems,       \* existingData?.items || []
  newFeedItems,        \* newFeed.items
  mergedItems,
  newItemsForSummary,
  itemsWithSummaries,
  maxItems,            \* the maxItems argument of mergeFeedItems
  attemptNumber,       \* p-retry attempt number for the entry being summarized
  attemptLog,          \* HTTP status of each finished attempt for that entry
  pending,             \* apiQueue: tasks dispatched and not yet settled
  queued,              \* apiQueue: tasks waiting for a slot
  currentMinuteTokens,
  lastResetTime,
  now,                 \* Date.now()
  calledLinks,         \* history: links the service was invoked for in this cycle
  admittedTokens,      \* history: estimates admitted without a wait since the last reset
  everSummary          \* history: the summaries that the followed link of the followed
                       \* source had in the first persisted snapshot that held it

vars == <<store, srcIdx, results, pc, lastError, existingItems, newFeedItems,
          mergedItems, newItemsForSummary, itemsWithSummaries, maxItems,
          attemptNumber, attemptLog, pending, queued, currentMinuteTokens,
          lastResetTime, now, calledLinks, admittedTokens, everSummary>>

cycleVars == <<existingItems, newFeedItems, mergedItems, newItemsForSummary,
               itemsWithSummaries, attemptNumber, attemptLog>>
queueVars == <<pending, queued>>
budgetVars == <<currentMinuteTokens, lastResetTime, admittedTokens>>
driverVars == <<srcIdx, results>>

(* ------------------------------ inputs --------------------------------- *)
\* entries as fetchRssFeed returns them: no summary field; a short entry "a",
\* a long entry "b" and an entry without a link
FeedItems == {Item("a", "c1", NoSummary), Item("b", "c2", NoSummary),
              Item(NoLink, "c1", NoSummary)}

\* what a fetch of a source can return: the first configured source publishes
\* the full range of feeds, the others at most one entry
FeedsOf(src) ==
  IF src = Sources[1] THEN SeqsUpTo(FeedItems, MaxFresh)
  ELSE SeqsUpTo({Item("a", "c1", NoSummary)}, 1)

\* (item.title + item.content).length
PromptLength(item) == IF item.content = "c1" THEN 1250000 ELSE 1500000

\* Math.floor(promptLength * TOKEN_PER_CHAR), TOKEN_PER_CHAR = 0.4
EstimatedTokens(item) == (PromptLength(item) * 4) \div 10

\* the source and the link whose persisted summaries the history follows
FollowedSource == Sources[1]
FollowedLink == "a"

\* one clock step: just over one window
TickMs == WindowMs + 1

(* ------------------------------- Init ---------------------------------- *)
NoResults == [s \in SourceSet |-> "unset"]

Init ==
  /\ store = [s \in SourceSet |-> <<>>]
  /\ srcIdx = 1
  /\ results = NoResults
  /\ pc = "main"
  /\ lastError = "none"
  /\ existingItems = <<>>
  /\ newFeedItems = <<>>
  /\ mergedItems = <<>>
  /\ newItemsForSummary = <<>>
  /\ itemsWithSummaries = <<>>
  /\ maxItems \in 1..MaxItemsPerFeed
  /\ attemptNumber = 0
  /\ attemptLog = <<>>
  /\ pending = 0
  /\ queued = 0
  /\ currentMinuteTokens = 0
  /\ lastResetTime = 0
  /\ now = 0
  /\ calledLinks = {}
  /\ admittedTokens = 0
  /\ everSummary = {}

(* ------------------------- updateFeed: helpers ------------------------- *)
CurrentSource == Sources[srcIdx]

\* the entry the for loop of updateFeed is at
CurrentItem == mergedItems[Len(itemsWithSummaries) + 1]

InLoop == pc = "loop" /\ Len(itemsWithSummaries) < Len(mergedItems)

\* newItemsForSummary.some(newItem => newItem.link === item.link)
IsNewItem(item) ==
  \E k \in 1..Len(newItemsForSummary) : newItemsForSummary[k].link = item.link

NeedsSummary(item) == IsNewItem(item) /\ ~HasSummary(item)

\* currentMinuteTokens + estimatedTokens > 900000
OverBudget(tokens, estimate) == tokens + estimate > TokenCeiling

\* mutant: a source that failed is tried again until it succeeds
EndCycleRetrying(flag, err) ==
  /\ results' = [results EXCEPT ![CurrentSource] = flag]
  /\ srcIdx' = IF flag = "false" THEN srcIdx ELSE srcIdx + 1
  /\ pc' = "main"
  /\ lastError' = err
  /\ existingItems' = <<>>
  /\ newFeedItems' = <<>>
  /\ mergedItems' = <<>>
  /\ newItemsForSummary' = <<>>
  /\ itemsWithSummaries' = <<>>
  /\ attemptNumber' = 0
  /\ attemptLog' = <<>>
  /\ calledLinks' = {}
  /\ UNCHANGED maxItems

\* mutant: a failed source ends the loop over the sources
EndCycleHalting(flag, err) ==
  /\ results' = [results EXCEPT ![CurrentSource] = flag]
  /\ srcIdx' = IF flag = "false" THEN Len(Sources) + 1 ELSE srcIdx + 1
  /\ pc' = "main"
  /\ lastError' = err
  /\ existingItems' = <<>>
  /\ newFeedItems' = <<>>
  /\ mergedItems' = <<>>
  /\ newItemsForSummary' = <<>>
  /\ itemsWithSummaries' = <<>>
  /\ attemptNumber' = 0
  /\ attemptLog' = <<>>
  /\ calledLinks' = {}
  /\ UNCHANGED maxItems

\* updateFeed returns or throws: updateAllFeeds records the flag and moves on
EndCycle(flag, err) ==
  /\ results' = [results EXCEPT ![CurrentSource] = flag]
  /\ srcIdx' = srcIdx + 1
  /\ pc' = "main"
  /\ lastError' = err
  /\ existingItems' = <<>>
  /\ newFeedItems' = <<>>
  /\ mergedItems' = <<>>
  /\ newItemsForSummary' = <<>>
  /\ itemsWithSummaries' = <<>>
  /\ attemptNumber' = 0
  /\ attemptLog' = <<>>
  /\ calledLinks' = {}
  /\ UNCHANGED maxItems

\* mutant: the entry is put in front of the entries already done
PushItemFront(item) ==
  /\ itemsWithSummaries' = <<item>> \o itemsWithSummaries
  /\ pc' = "loop"

\* itemsWithSummaries.push({ ...item, summary }) and on to the next entry
PushItem(item) ==
  /\ itemsWithSummaries' = Append(itemsWithSummaries, item)
  /\ pc' = "loop"

\* mutant: fetch(...) called bare, neither queued nor awaited: the request is
\* in flight while the caller goes on, finds no usable response and retries
CallApiBare ==
  /\ pending' = pending + 1
  /\ queued' = queued
  /\ pc' = "backoff"

\* await apiQueue.add(() => fetch(...)): the task starts at once when a slot
\* is free, else it waits in the queue; the caller is suspended either way
CallApi ==
  /\ IF pending < Concurrency
     THEN pending' = pending + 1 /\ queued' = queued
     ELSE pending' = pending /\ queued' = queued + 1
  /\ pc' = "awaiting"

\* a dispatched task settles: its slot goes to the next queued task, if any
QueueSettle ==
  IF queued > 0
  THEN pending' = pending /\ queued' = queued - 1
  ELSE pending' = pending - 1 /\ queued' = queued

\* mutant: the number of retries taken as the number of attempts
AttemptsLeftOneLess(attempt) == attempt < Retries

\* p-retry: another attempt is made while fewer than retries + 1 were made
AttemptsLeft(attempt) == attempt < Retries + 1

\* mutant: a plain Error is thrown for 429, which p-retry retries
IsAbortNever(status) == FALSE

\* response.status === 429 -> throw new retry.AbortError(...)
IsAbort(status) == status = 429

(* ------------------------------ actions -------------------------------- *)
\* updateAllFeeds picks the next source; updateFeed runs up to its first await:
\* the window test of lines 300-304, loadFeedData, then the call of fetchRssFeed
UpdateFeedStart ==
  /\ pc = "main"
  /\ srcIdx <= Len(Sources)
  /\ IF now - lastResetTime > WindowMs
     THEN /\ currentMinuteTokens' = 0
          /\ lastResetTime' = now
          /\ admittedTokens' = 0
     ELSE UNCHANGED budgetVars
  /\ existingItems' = store[CurrentSource]
  /\ pc' = "fetching"
  /\ lastError' = "none"
  /\ calledLinks' = {}
  /\ UNCHANGED <<store, driverVars, newFeedItems, mergedItems, newItemsForSummary,
                 itemsWithSummaries, maxItems, attemptNumber, attemptLog,
                 queueVars, now, everSummary>>

\* fetchRssFeed resolves: mergeFeedItems runs and the loop is entered
FetchOk ==
  /\ pc = "fetching"
  /\ \E items \in FeedsOf(CurrentSource) :
       LET m == mergeFeedItems(existingItems, items, maxItems)
       IN /\ newFeedItems' = items
          /\ mergedItems' = m.mergedItems
          /\ newItemsForSummary' = m.newItemsForSummary
  /\ itemsWithSummaries' = <<>>
  /\ pc' = "loop"
  /\ UNCHANGED <<store, driverVars, lastError, existingItems, maxItems,
                 attemptNumber, attemptLog, queueVars, budgetVars, now,
                 calledLinks, everSummary>>

\* mutant: a failed fetch persists an empty snapshot for the source
FetchFailClearing ==
  /\ pc = "fetching"
  /\ EndCycle("false", "FetchError")
  /\ store' = [store EXCEPT ![CurrentSource] = <<>>]
  /\ UNCHANGED <<queueVars, budgetVars, now, everSummary>>

\* fetchRssFeed throws: updateFeed rethrows, updateAllFeeds records false
FetchFail ==
  /\ pc = "fetching"
  /\ EndCycle("false", "FetchError")
  /\ UNCHANGED <<store, queueVars, budgetVars, now, everSummary>>

\* the else branch of the loop: the entry is pushed as it is
KeepItem ==
  /\ InLoop
  /\ ~NeedsSummary(CurrentItem)
  /\ PushItem(CurrentItem)
  /\ attemptNumber' = 0
  /\ attemptLog' = <<>>
  /\ UNCHANGED <<store, driverVars, lastError, existingItems, newFeedItems,
                 mergedItems, newItemsForSummary, maxItems, queueVars,
                 budgetVars, now, calledLinks, everSummary>>

\* the budget test fails: `delay` is called, which no line of the script
\* defines or imports; the ReferenceError leaves the loop and updateFeed
BudgetExceeded ==
  /\ InLoop
  /\ NeedsSummary(CurrentItem)
  /\ OverBudget(currentMinuteTokens, EstimatedTokens(CurrentItem))
  /\ EndCycle("false", "ReferenceError")
  /\ UNCHANGED <<store, queueVars, budgetVars, now, everSummary>>

\* the budget test passes: retry() makes the first attempt
StartSummary ==
  /\ InLoop
  /\ NeedsSummary(CurrentItem)
  /\ ~OverBudget(currentMinuteTokens, EstimatedTokens(CurrentItem))
  /\ attemptNumber' = 1
  /\ attemptLog' = <<>>
  /\ CallApi
  /\ calledLinks' = calledLinks \cup {CurrentItem.link}
  /\ admittedTokens' = admittedTokens + EstimatedTokens(CurrentItem)
  /\ UNCHANGED <<store, driverVars, lastError, existingItems, newFeedItems,
                 mergedItems, newItemsForSummary, itemsWithSummaries, maxItems,
                 currentMinuteTokens, lastResetTime, now, everSummary>>

\* mutant: the text of the response is taken as it is, empty or not
ResponseOkRaw ==
  /\ pc = "awaiting"
  /\ pending > 0
  /\ QueueSettle
  /\ attemptLog' = Append(attemptLog, 200)
  /\ \E text \in GeneratedTexts :
       PushItem([CurrentItem EXCEPT
                   !.summary = IF text = "" THEN NoSummary ELSE text])
  /\ currentMinuteTokens' = currentMinuteTokens + EstimatedTokens(CurrentItem)
  /\ UNCHANGED <<store, driverVars, lastError, existingItems, newFeedItems,
                 mergedItems, newItemsForSummary, maxItems, attemptNumber,
                 lastResetTime, admittedTokens, now, calledLinks, everSummary>>

\* the request returns 200: the text (or the no-valid-summary text) becomes the
\* summary and the estimate is added to the counter
ResponseOk ==
  /\ pc = "awaiting"
  /\ pending > 0
  /\ QueueSettle
  /\ attemptLog' = Append(attemptLog, 200)
  /\ \E text \in GeneratedTexts :
       PushItem([CurrentItem EXCEPT
                   !.summary = IF text = "" THEN NoValidSummary ELSE text])
  /\ currentMinuteTokens' = currentMinuteTokens + EstimatedTokens(CurrentItem)
  /\ UNCHANGED <<store, driverVars, lastError, existingItems, newFeedItems,
                 mergedItems, newItemsForSummary, maxItems, attemptNumber,
                 lastResetTime, admittedTokens, now, calledLinks, everSummary>>

\* the request returns another status: 429 aborts the retry, anything else is
\* retried while attempts are left; when none is, the catch pushes the fallback
ResponseFailed ==
  /\ pc = "awaiting"
  /\ pending > 0
  /\ QueueSettle
  /\ \E status \in {429, 500} :
       /\ attemptLog' = Append(attemptLog, status)
       /\ IF ~IsAbort(status) /\ AttemptsLeft(attemptNumber)
          THEN pc' = "backoff" /\ UNCHANGED itemsWithSummaries
          ELSE PushItem([CurrentItem EXCEPT !.summary = FallbackSummary])
  /\ UNCHANGED <<store, driverVars, lastError, existingItems, newFeedItems,
                 mergedItems, newItemsForSummary, maxItems, attemptNumber,
                 budgetVars, now, calledLinks, everSummary>>

\* the backoff timer of p-retry fires: the next attempt is made
BackoffElapsed ==
  /\ pc = "backoff"
  /\ attemptNumber <= Retries
  /\ attemptNumber' = attemptNumber + 1
  /\ CallApi
  /\ UNCHANGED <<store, driverVars, lastError, existingItems, newFeedItems,
                 mergedItems, newItemsForSummary, itemsWithSummaries, maxItems,
                 attemptLog, budgetVars, now, calledLinks, everSummary>>

LoopDone == pc = "loop" /\ Len(itemsWithSummaries) = Len(mergedItems)

\* non-empty summaries of the entries of `items` with link l
SummariesOf(items, l) ==
  {items[k].summary : k \in {j \in 1..Len(items) :
                               items[j].link = l /\ HasSummary(items[j])}}

\* saveFeedData writes the snapshot: updateAllFeeds records true
SaveOk ==
  /\ LoopDone
  /\ store' = [store EXCEPT ![CurrentSource] = itemsWithSummaries]
  /\ everSummary' =
       IF CurrentSource = FollowedSource /\ everSummary = {}
       THEN SummariesOf(itemsWithSummaries, FollowedLink)
       ELSE everSummary
  /\ EndCycle("true", "none")
  /\ UNCHANGED <<queueVars, budgetVars, now>>

\* writeFileSync throws: saveFeedData throws, updateAllFeeds records false
SaveFail ==
  /\ LoopDone
  /\ EndCycle("false", "PersistError")
  /\ UNCHANGED <<store, queueVars, budgetVars, now, everSummary>>

\* every source was visited: main calls process.exit(0)
Exit ==
  /\ pc = "main"
  /\ srcIdx > Len(Sources)
  /\ pc' = "exited"
  /\ UNCHANGED <<store, driverVars, lastError, cycleVars, maxItems, queueVars,
                 budgetVars, now, calledLinks, everSummary>>

\* the script is started again: the module-level state is initialised anew;
\* the clock is counted from the start of the script
StartScript ==
  /\ pc = "exited"
  /\ srcIdx' = 1
  /\ results' = NoResults
  /\ pc' = "main"
  /\ lastError' = "none"
  /\ currentMinuteTokens' = 0
  /\ now' = 0
  /\ lastResetTime' = 0
  /\ admittedTokens' = 0
  /\ pending' = 0
  /\ queued' = 0
  /\ UNCHANGED <<store, cycleVars, maxItems, calledLinks, everSummary>>

\* time passes while the control flow is suspended
Tick ==
  /\ pc \in {"fetching", "awaiting", "backoff"}
  /\ now < MaxTicks * TickMs
  /\ now' = now + TickMs
  /\ UNCHANGED <<store, driverVars, pc, lastError, cycleVars, maxItems, queueVars,
                 budgetVars, calledLinks, everSummary>>

Next ==
  \/ UpdateFeedStart
  \/ FetchOk
  \/ FetchFail
  \/ KeepItem
  \/ BudgetExceeded
  \/ StartSummary
  \/ ResponseOk
  \/ ResponseFailed
  \/ BackoffElapsed
  \/ SaveOk
  \/ SaveFail
  \/ Exit
  \/ StartScript
  \/ Tick

Spec == Init /\ [][Next]_vars

\* the steps of one run of the script: the code runs on, every external call
\* (fetch, request, save) returns or fails, every timer (backoff) fires
RunStep ==
  \/ UpdateFeedStart
  \/ FetchOk
  \/ FetchFail
  \/ KeepItem
  \/ BudgetExceeded
  \/ StartSummary
  \/ ResponseOk
  \/ ResponseFailed
  \/ BackoffElapsed
  \/ SaveOk
  \/ SaveFail
  \/ Exit

\* the script under the assumption that a pending call or timer does not stay
\* pending for ever; nothing forces the script to be started again
FairSpec == Spec /\ WF_vars(RunStep)

(* ---------------- mergeFeedItems as a function of its inputs ------------ *)
\* previous entries: with or without a summary, and one without a link
PrevItems == {Item(l, "c1", s) : l \in Links, s \in {NoSummary, "s1", "s2"}}
               \cup {Item(NoLink, "c1", "s1")}

\* fresh entries: unchanged or changed content, with or without a summary of
\* their own, and one without a link
FreshItems == {Item(l, "c1", s) : l \in Links, s \in {NoSummary, "s1"}}
                \cup {Item(l, "c2", NoSummary) : l \in Links}
                \cup {Item(NoLink, "c1", NoSummary)}

MergeInit ==
  /\ store = [s \in SourceSet |-> <<>>]
  /\ srcIdx = 1
  /\ results = NoResults
  /\ pc = "merge_input"
  /\ lastError = "none"
  /\ maxItems \in 0..MaxItemsPerFeed
  /\ existingItems \in SeqsUpTo(PrevItems, maxItems)
  /\ newFeedItems \in SeqsUpTo(FreshItems, MaxMergeFresh)
  /\ mergedItems = <<>>
  /\ newItemsForSummary = <<>>
  /\ itemsWithSummaries = <<>>
  /\ attemptNumber = 0
  /\ attemptLog = <<>>
  /\ pending = 0
  /\ queued = 0
  /\ currentMinuteTokens = 0
  /\ lastResetTime = 0
  /\ now = 0
  /\ calledLinks = {}
  /\ admittedTokens = 0
  /\ everSummary = {}

\* const { mergedItems, newItemsForSummary } = mergeFeedItems(old, new, max)
MergeApply ==
  /\ pc = "merge_input"
  /\ LET m == mergeFeedItems(existingItems, newFeedItems, maxItems)
     IN /\ mergedItems' = m.mergedItems
        /\ newItemsForSummary' = m.newItemsForSummary
  /\ pc' = "merge_done"
  /\ UNCHANGED <<store, driverVars, lastError, existingItems, newFeedItems,
                 itemsWithSummaries, maxItems, attemptNumber, attemptLog,
                 queueVars, budgetVars, now, calledLinks, everSummary>>

MergeNext == MergeApply

MergeSpec == MergeInit /\ [][MergeNext]_vars

(* ------------------------------- claims -------------------------------- *)
DistinctLinks(items) ==
  \A i, j \in 1..Len(items) : i # j => items[i].link # items[j].link

Last(s) == s[Len(s)]

\* number of entries with a link among the first f entries of items
LinkRank(items, f) == Cardinality({k \in 1..f : HasLink(items[k])})

\* C1: the merged items returned by mergeFeedItems hold no two entries with the
\* same link, and so does every snapshot updateFeed persisted.
C1_UniqueLinks ==
  /\ DistinctLinks(mergedItems)
  /\ \A s \in SourceSet : DistinctLinks(store[s])

\* C2: once a link was persisted with a non-empty summary, the service is not
\* invoked for that link in any later cycle of the source, and every persisted
\* snapshot holding the link carries a summary it was first persisted with
\* (stated for the followed link of the followed source).
C2_SummaryOnceAndForAll ==
  everSummary # {} =>
    /\ ~(FollowedLink \in calledLinks /\ CurrentSource = FollowedSource)
    /\ \A k \in 1..Len(store[FollowedSource]) :
         store[FollowedSource][k].link = FollowedLink
           => store[FollowedSource][k].summary \in everSummary

\* C3: for every previous entry with link L and a non-empty summary s and every
\* fresh entry with link L and no summary among the first maxItems entries that
\* have a link, the merged entry at that place has summary s and otherwise the
\* fields of that fresh entry.
C3_SummaryPreserved ==
  pc = "merge_done" =>
    \A p \in 1..Len(existingItems) : \A f \in 1..Len(newFeedItems) :
      ( /\ HasLink(existingItems[p])
        /\ HasSummary(existingItems[p])
        /\ newFeedItems[f].link = existingItems[p].link
        /\ ~HasSummary(newFeedItems[f])
        /\ LinkRank(newFeedItems, f) <= maxItems )
      => mergedItems[LinkRank(newFeedItems, f)]
           = Item(newFeedItems[f].link, newFeedItems[f].content,
                  existingItems[p].summary)

\* C4: the merged list is as long as the smaller of maxItems and the number of
\* fresh entries with a link, never longer than maxItems, and holds no entry
\* without a link.
C4_Truncation ==
  pc = "merge_done" =>
    /\ Len(mergedItems) = Min(LinkRank(newFeedItems, Len(newFeedItems)), maxItems)
    /\ Len(mergedItems) <= maxItems
    /\ \A k \in 1..Len(mergedItems) : HasLink(mergedItems[k])

\* reached: a merge that cut a feed with a link-less entry down to maxItems
C4_Witness ==
  /\ pc = "merge_done"
  /\ maxItems = 1
  /\ LinkRank(newFeedItems, Len(newFeedItems)) = 2
  /\ ~HasLink(newFeedItems[1])
  /\ Len(mergedItems) = 1

\* C5: merging a list of entries with distinct non-empty links, no longer than
\* maxItems, with itself returns that list entry for entry and finds no entry
\* that needs a summary.
C5_Idempotent ==
  ( /\ pc = "merge_done"
    /\ existingItems = newFeedItems
    /\ DistinctLinks(newFeedItems)
    /\ \A k \in 1..Len(newFeedItems) : HasLink(newFeedItems[k])
    /\ Len(newFeedItems) <= maxItems )
  => /\ mergedItems = newFeedItems
     /\ newItemsForSummary = <<>>

\* reached: a two-entry list, one entry summarized and one not, merged with itself
C5_Witness ==
  /\ pc = "merge_done"
  /\ existingItems = newFeedItems
  /\ newFeedItems = <<Item("a", "c1", "s1"), Item("b", "c1", NoSummary)>>
  /\ maxItems = 2
  /\ mergedItems = newFeedItems

\* every attempt for the entry in hand failed with a retryable error and the
\* retry wrapper gave up
Exhausted ==
  /\ pc = "loop"
  /\ attemptLog # <<>>
  /\ \A k \in 1..Len(attemptLog) : attemptLog[k] = 500

\* C6 as stated: the operation is invoked at most 3 times for one entry, and
\* exactly 3 times when every attempt fails with a retryable error.
C6_AtMostThreeAttempts ==
  /\ attemptNumber <= 3
  /\ Exhausted => attemptNumber = 3

\* C6 amended: the operation is invoked at most 4 times for one entry (the first
\* attempt and 3 retries); when every attempt fails with a retryable error it is
\* invoked exactly 4 times and the error then reaches updateFeed, which attaches
\* the fallback summary.
C6_AtMostFourAttempts ==
  /\ attemptNumber <= 4
  /\ Len(attemptLog) <= attemptNumber
  /\ Exhausted => /\ attemptNumber = 4
                  /\ Len(attemptLog) = 4
                  /\ Last(itemsWithSummaries).summary = FallbackSummary

\* reached: four failed attempts, then the fallback
C6_Witness ==
  /\ Exhausted
  /\ attemptLog = <<500, 500, 500, 500>>
  /\ Last(itemsWithSummaries).summary = FallbackSummary

\* C7: a 429 answer to attempt k is the last attempt for that entry in this
\* cycle: the operation was invoked exactly k times, the entry is done and
\* carries the fallback summary.
C7_AbortOnRateLimit ==
  \A k \in 1..Len(attemptLog) :
    attemptLog[k] = 429 =>
      /\ k = Len(attemptLog)
      /\ attemptNumber = k
      /\ pc = "loop"
      /\ Last(itemsWithSummaries).summary = FallbackSummary
      /\ Last(itemsWithSummaries).link = mergedItems[Len(itemsWithSummaries)].link

\* reached: a 429 on the first attempt, with three attempts left
C7_Witness ==
  /\ attemptLog = <<429>>
  /\ attemptNumber = 1
  /\ pc = "loop"

\* C8: the estimates admitted to summarization without a wait since the last
\* reset of the counter never add up to more than the ceiling.
C8_BudgetNeverExceeded == admittedTokens <= 900000

\* C9: at most 3 requests are dispatched by the queue and not yet settled.
C9_ConcurrencyBound == pending <= 3

\* reached: a request is in flight
C9_Witness == pending = 1 /\ pc = "awaiting" /\ attemptNumber = 2

\* C10: updateFeed fails only because the fetch or the save failed.
C10_OnlyFetchOrSaveFails == lastError \in {"none", "FetchError", "PersistError"}

\* the sources whose flag updateAllFeeds has recorded are those before srcIdx
ResultsInOrder ==
  \A k \in 1..Len(Sources) : (results[Sources[k]] # "unset") <=> (k < srcIdx)

\* a step in which updateFeed of the current source returns or throws
CycleEnds == srcIdx' # srcIdx /\ pc # "exited"

\* C11: updateAllFeeds visits the sources in configuration order, one at a time;
\* when the cycle of a source ends, the flag recorded for it is true exactly when
\* the cycle went through to its save (the store then holds the items of the
\* cycle) and false when it failed (the store is as before); the flags of the
\* other sources are untouched and the driver goes on with the next source;
\* the script exits only with a flag recorded for every source.
C11_FailureIsolation ==
  /\ [](ResultsInOrder)
  /\ [](pc = "exited" => \A s \in SourceSet : results[s] \in {"true", "false"})
  /\ [][CycleEnds =>
         /\ srcIdx' = srcIdx + 1
         /\ pc' = "main"
         /\ results'[CurrentSource] \in {"true", "false"}
         /\ \A s \in SourceSet \ {CurrentSource} : results'[s] = results[s]
         /\ results'[CurrentSource] = "true"
              <=> (LoopDone /\ lastError' = "none")
         /\ results'[CurrentSource] = "true"
              => store'[CurrentSource] = itemsWithSummaries
         /\ results'[CurrentSource] = "false" => store' = store]_vars

\* reached: the first source failed, the second was saved, the script exited
C11_Witness ==
  /\ pc = "exited"
  /\ results[Sources[1]] = "false"
  /\ results[Sources[2]] = "true"
  /\ store[Sources[2]] # <<>>

\* a step in which the fetch of the current source fails
FetchFails == pc = "fetching" /\ pc' = "main"

\* C12: a cycle whose fetch fails made no summarization request and leaves the
\* store, the request queue and the token counter as they were; the store
\* changes only in the step that ends a cycle with its save, and then only the
\* snapshot of the source of that cycle changes, to the items of that cycle.
C12_StoreChangesOnlyBySave ==
  [][ /\ FetchFails =>
           /\ store' = store
           /\ calledLinks = {}
           /\ pending' = pending /\ queued' = queued
           /\ currentMinuteTokens' = currentMinuteTokens
           /\ results'[CurrentSource] = "false"
      /\ store' # store =>
           /\ LoopDone
           /\ srcIdx' = srcIdx + 1
           /\ results'[CurrentSource] = "true"
           /\ store'[CurrentSource] = itemsWithSummaries
           /\ \A s \in SourceSet \ {CurrentSource} : store'[s] = store[s] ]_vars

\* reached: the fetch of a source failed whose snapshot an earlier run persisted
C12_Witness ==
  /\ pc = "main"
  /\ lastError = "FetchError"
  /\ srcIdx = 2
  /\ results[Sources[1]] = "false"
  /\ store[Sources[1]] # <<>>

\* updateAllFeeds has returned: every configured source is saved or failed
AllSourcesDone ==
  /\ pc = "exited"
  /\ \A s \in SourceSet : results[s] \in {"true", "false"}

\* C13: if no external call and no timer stays pending for ever, every run of
\* the script reaches its exit with every configured source saved or failed,
\* whatever the fetches, the summarization requests and the saves answer.
C13_PipelineCompletes == (pc # "exited") ~> AllSourcesDone

\* reached: the script exited after a cycle in which the attempts for an entry
\* were used up and a later source was stopped by the budget test
C13_Witness ==
  /\ AllSourcesDone
  /\ lastError = "ReferenceError"
  /\ \E k \in 1..Len(store[Sources[1]]) :
       store[Sources[1]][k].summary = FallbackSummary

\* some entry of items has link l
LinkIn(items, l) == \E p \in 1..Len(items) : items[p].link = l

\* the first n entries of fresh that have a link which no entry of prev has,
\* in order; with firstOnly, only the first entry of each link
RECURSIVE NewEntries(_, _, _, _)
NewEntries(prev, fresh, n, firstOnly) ==
  IF n = 0 THEN <<>>
  ELSE LET rest == NewEntries(prev, fresh, n - 1, firstOnly)
       IN IF /\ HasLink(fresh[n])
             /\ ~LinkIn(prev, fresh[n].link)
             /\ firstOnly => ~LinkIn(SubSeq(fresh, 1, n - 1), fresh[n].link)
          THEN Append(rest, fresh[n])
          ELSE rest

\* C14 as stated: newItemsForSummary is, in fresh order, every fresh entry that
\* has a link which no previous entry has, a second entry repeating such a link
\* included.
C14_EveryNewEntryAppended ==
  pc = "merge_done" =>
    newItemsForSummary
      = NewEntries(existingItems, newFeedItems, Len(newFeedItems), FALSE)

\* C14 amended: newItemsForSummary is, in fresh order, the first fresh entry of
\* every link that no previous entry has; a later fresh entry repeating that
\* link is not appended, nor is an entry whose link a previous entry has.
C14_FirstOccurrencesAppended ==
  pc = "merge_done" =>
    newItemsForSummary
      = NewEntries(existingItems, newFeedItems, Len(newFeedItems), TRUE)

\* reached: a new link fetched twice and a link the previous snapshot holds
C14_Witness ==
  /\ pc = "merge_done"
  /\ existingItems = <<Item("b", "c1", "s1")>>
  /\ newFeedItems = <<Item("a", "c1", NoSummary), Item("a", "c2", NoSummary),
                      Item("b", "c1", NoSummary)>>
  /\ newItemsForSummary = <<Item("a", "c1", NoSummary)>>

\* the previous entry the map holds for a link: the last one with that link
IsPreviousOf(p, l) ==
  /\ existingItems[p].link = l
  /\ \A q \in (p + 1)..Len(existingItems) : existingItems[q].link # l

\* the fresh entry at f is the only fresh entry with its link
OnlyFreshOf(f) ==
  \A g \in 1..Len(newFeedItems) :
    newFeedItems[g].link = newFeedItems[f].link => g = f

\* C15 as stated: when the fresh entry with link L carries a summary f and the
\* previous entry with link L a different summary p, the merged entry for L
\* carries f.
C15_FreshSummaryWins ==
  pc = "merge_done" =>
    \A p \in 1..Len(existingItems) : \A f \in 1..Len(newFeedItems) :
      ( /\ HasLink(newFeedItems[f])
        /\ IsPreviousOf(p, newFeedItems[f].link)
        /\ HasSummary(existingItems[p])
        /\ HasSummary(newFeedItems[f])
        /\ existingItems[p].summary # newFeedItems[f].summary
        /\ LinkRank(newFeedItems, f) <= maxItems )
      => mergedItems[LinkRank(newFeedItems, f)].summary = newFeedItems[f].summary

\* C15 amended: the merged entry for a link takes the summary of the previous
\* entry whenever that one is non-empty, also when the fresh entry carries a
\* different summary of its own; the summary of the fresh entry is taken only
\* when no previous entry has the link or the previous entry has no summary.
C15_PreviousSummaryWins ==
  pc = "merge_done" =>
    \A f \in 1..Len(newFeedItems) :
      (HasLink(newFeedItems[f]) /\ LinkRank(newFeedItems, f) <= maxItems) =>
        LET merged == mergedItems[LinkRank(newFeedItems, f)]
        IN /\ \A p \in 1..Len(existingItems) :
                (IsPreviousOf(p, newFeedItems[f].link) /\ HasSummary(existingItems[p]))
                  => merged.summary = existingItems[p].summary
           /\ ( /\ OnlyFreshOf(f)
                /\ \A p \in 1..Len(existingItems) :
                     IsPreviousOf(p, newFeedItems[f].link)
                       => ~HasSummary(existingItems[p]) )
              => merged.summary = newFeedItems[f].summary

\* reached: previous and fresh entry of a link carry different summaries
C15_Witness ==
  /\ pc = "merge_done"
  /\ existingItems = <<Item("a", "c1", "s2")>>
  /\ newFeedItems = <<Item("a", "c1", "s1")>>
  /\ mergedItems = <<Item("a", "c1", "s2")>>

\* a step in which the cycle of the current source ends with its save
CycleSaved == CycleEnds /\ results'[CurrentSource] = "true"

\* the fetched entries that have a link, in fetch order, cut to maxItems
FetchedKept == Slice(SelectSeq(newFeedItems, HasLink), maxItems)

\* C16: the snapshot a cycle persists has, place for place, the links of the
\* fetched entries that have a link, in fetch order, cut to maxItems, whatever
\* the summarization requests answered; it holds no link that only the previous
\* snapshot had; and its entries differ from the merged entries in nothing but
\* the summary.
C16_PersistedInFetchOrder ==
  [][CycleSaved =>
       LET saved == store'[CurrentSource]
       IN /\ Len(saved) = Len(FetchedKept)
          /\ \A k \in 1..Len(saved) :
               /\ saved[k].link = FetchedKept[k].link
               /\ LinkIn(newFeedItems, saved[k].link)
               /\ saved[k].link = mergedItems[k].link
               /\ saved[k].content = mergedItems[k].content]_vars

\* reached: a saved snapshot in fetch order b, a whose first request failed and
\* whose second succeeded
C16_Witness ==
  /\ pc = "main"
  /\ srcIdx = 2
  /\ results[Sources[1]] = "true"
  /\ Len(store[Sources[1]]) = 2
  /\ store[Sources[1]][1] = Item("b", "c2", FallbackSummary)
  /\ store[Sources[1]][2] = Item("a", "c1", "s1")

\* the loop is at the budget check of an entry that needs a summary
AtBudgetCheck == InLoop /\ NeedsSummary(CurrentItem)

\* now - lastResetTime > 60 * 1000
WindowExpired == now - lastResetTime > WindowMs

\* C17: at the budget check of an entry, when more than the window length has
\* passed since the window start, the counter is reset to 0 and the window
\* start set to now before the estimate is compared with the ceiling: the entry
\* is not stopped by the budget test and goes on to its request.
C17_ExpiredWindowIsReset ==
  [][(AtBudgetCheck /\ WindowExpired) =>
       /\ lastError' # "ReferenceError"
       /\ pc' = "awaiting"
       /\ lastResetTime' = now
       /\ currentMinuteTokens' = 0]_vars

\* the state C17 fails in: the window has expired during the request of an
\* earlier entry and the counter still makes the budget test true
C17_StaleWindow ==
  /\ AtBudgetCheck
  /\ WindowExpired
  /\ OverBudget(currentMinuteTokens, EstimatedTokens(CurrentItem))
  /\ ~OverBudget(0, EstimatedTokens(CurrentItem))

\* the budget test of line 332 is true for the entry in hand
BudgetTestTrue ==
  AtBudgetCheck /\ OverBudget(currentMinuteTokens, EstimatedTokens(CurrentItem))

\* C18: when the budget test is true the loop is suspended and then goes on
\* with a counter of 0 and with the same entry: the cycle of the source does
\* not end, the entries done so far and the merged entries stay as they are.
C18_WaitThenSameEntry ==
  [][BudgetTestTrue =>
       /\ srcIdx' = srcIdx
       /\ results' = results
       /\ mergedItems' = mergedItems
       /\ itemsWithSummaries' = itemsWithSummaries
       /\ currentMinuteTokens' = 0]_vars

\* the state C18 is about: an entry whose estimate does not fit the window
C18_OverBudgetReached ==
  /\ BudgetTestTrue
  /\ ~WindowExpired
  /\ currentMinuteTokens > 0

\* C19: every entry of every persisted snapshot has a non-empty summary: the
\* one it was persisted with before, or the generated text, the
\* no-valid-summary text or the fallback string.
C19_PersistedEntriesHaveSummary ==
  \A s \in SourceSet : \A k \in 1..Len(store[s]) :
    /\ HasSummary(store[s][k])
    /\ store[s][k].summary \in (GeneratedTexts \ {""})
                                 \cup {NoValidSummary, FallbackSummary}

\* reached: snapshots holding a generated text, the no-valid-summary text and
\* the fallback string
C19_Witness ==
  /\ Len(store[Sources[1]]) = 2
  /\ store[Sources[1]][1].summary = NoValidSummary
  /\ store[Sources[1]][2].summary = FallbackSummary
  /\ Len(store[Sources[2]]) = 1
  /\ store[Sources[2]][1].summary = "s1"

\* a cycle of the current source is under way
InCycle == pc \in {"fetching", "loop", "awaiting", "backoff"}

\* the service was invoked in this cycle only for links that the snapshot
\* loaded at the start of the cycle, which is the persisted one, does not hold
\* and that are among the merged items
RequestsOnlyForNewKeptLinks ==
  /\ InCycle => existingItems = store[CurrentSource]
  /\ \A l \in calledLinks :
       /\ ~LinkIn(existingItems, l)
       /\ LinkIn(mergedItems, l)

\* a saved cycle leaves the fallback summary on every link that was persisted
\* with it and is among the fetched entries kept
FallbackKept ==
  CycleSaved =>
    \A k \in 1..Len(store[CurrentSource]) :
      ( /\ store[CurrentSource][k].summary = FallbackSummary
        /\ LinkIn(FetchedKept, store[CurrentSource][k].link) )
      => \A j \in 1..Len(store'[CurrentSource]) :
           store'[CurrentSource][j].link = store[CurrentSource][k].link
             => store'[CurrentSource][j].summary = FallbackSummary

\* C20: in a cycle the service is invoked for a link only if the snapshot
\* loaded at the start of the cycle does not hold the link and the link is
\* among the merged items, so an entry cut off by maxItems costs no request;
\* an entry persisted with the fallback summary is not requested again and
\* keeps the fallback string in every later saved cycle whose fetch holds its
\* link among the entries kept.
C20_NoRequestForKnownLinks ==
  /\ [](RequestsOnlyForNewKeptLinks)
  /\ [][FallbackKept]_vars

\* reached: a link persisted with the fallback summary is fetched again, with a
\* new entry that is cut off, and no request was made in the cycle
C20_FallbackNotRetried ==
  /\ LoopDone
  /\ maxItems = 1
  /\ existingItems = <<Item("a", "c1", FallbackSummary)>>
  /\ newFeedItems = <<Item("a", "c1", NoSummary), Item("b", "c2", NoSummary)>>
  /\ itemsWithSummaries = existingItems
  /\ calledLinks = {}

====
